---- MODULE Spec2Model ----
(***************************************************************************)
(* PIN (pin2) credential management of edge-core-js:                       *)
(* src/core/login/pin2.js applied to the three stores it keeps in step:    *)
(* the login server, the on-device stash tree and the in-memory login      *)
(* tree.                                                                   *)
(*                                                                         *)
(* Trees are kept as maps from loginId to node; a node's `children` field  *)
(* is the left-to-right sequence of its children's loginIds.  JavaScript   *)
(* `undefined` is Undefined for strings, NoKey for keys, NoHmac for        *)
(* hashes, NoBox for encrypted boxes and NoBody for a missing request      *)
(* body.                                                                   *)
(***************************************************************************)
EXTENDS Integers, Sequences, FiniteSets, TLC

VARIABLES
  loginTree,   \* ai.props.state.accounts[accountId].loginTree
  stashTree,   \* the stash tree of the account, as on disk
  server,      \* the login server's PIN registration of each login
  calls,       \* the changePin / deletePin calls, one record per slot
  ret,         \* outcome of the latest checkPin2 / loginPin2 call
  returned,    \* the slot of the call that returned last, 0 before any
  random,      \* number of keys io.random has handed out
  overlap,     \* whether callers start a call while another is in flight
  context      \* the makeContext call: its options and its outcome

vars ==
  <<loginTree, stashTree, server, calls, ret, returned, random, overlap,
    context>>

-----------------------------------------------------------------------------
(* Bounds *)

\* io.random hands out at most this many keys in one behaviour
MaxRandom == 3

-----------------------------------------------------------------------------
(* Values *)

Undefined == "undefined"
NoKey == 0
NoHmac == <<0, NoKey>>
NoBox == <<0, NoKey>>
NoBody == <<>>

Root == 1
Nodes == {1, 2, 3}
Slots == {1, 2}

\* the PINs users type
Pins == {"1234", "0000"}
\* the PIN of the account when the behaviour starts
FirstPin == "1234"
\* the PINs callers of changePin pass
NewPins == {"0000"}
\* the username of the account, as the user typed it at login
AccountUsername == "Alice"
Usernames == {"Alice", "bob"}
\* the logins whose node carries the username
Named == {1, 2}
AppIds == {"", "app"}

\* a key io.random returned: the r-th key of the stream
RandomKey(r) == 10 + r
\* the keys a device may hold before any call
OldKey(n) == n
\* the master key of a login
LoginKeyOf(n) == 100 + n

\* the trees of the account: the children of each login, left to right, and
\* the appId of each login
Trees ==
  { [children |-> [n \in Nodes |-> IF n = 1 THEN <<3, 2>> ELSE <<>>],
     appIds |-> <<"", "app", "app">>],
    [children |-> [n \in Nodes |->
                     IF n = 1 THEN <<2>> ELSE IF n = 2 THEN <<3>> ELSE <<>>],
     appIds |-> <<"", "", "app">>] }

-----------------------------------------------------------------------------
(* Collaborators of pin2.js *)

\* login-selectors.js fixUsername: normalises a username
fixUsername(username) ==
  IF username = "Alice" THEN "alice" ELSE username

\* encoding.js utf8.parse: the bytes of a string, written as a number
utf8parse(text) ==
  CASE text = "1234" -> 1234
    [] text = "0000" -> 4000
    [] text = "alice" -> 5001
    [] text = "Alice" -> 5002
    [] text = "bob" -> 5003
    [] OTHER -> 0

\* encoding.js utf8.stringify: the string of the bytes
utf8stringify(data) ==
  CASE data = 1234 -> "1234"
    [] data = 4000 -> "0000"
    [] data = 5001 -> "alice"
    [] data = 5002 -> "Alice"
    [] data = 5003 -> "bob"
    [] OTHER -> Undefined

\* hashes.js hmacSha256(data, key): a keyed hash, one value per (data, key)
hmacSha256(data, key) == <<data, key>>

\* crypto.js encrypt(io, data, key): an authenticated-encryption box
encrypt(data, key) == <<data, key>>

\* crypto.js decrypt(box, key): the data of a box made under the same key
decrypt(box, key) == IF box[2] = key THEN box[1] ELSE 0

\* Merge in which a field the node already has wins over the patch
MergeFirstWins(node, patch) ==
  [f \in DOMAIN node \cup DOMAIN patch |->
     IF f \in DOMAIN node THEN node[f] ELSE patch[f]]

\* Merge that replaces the node by the patch
MergeReplaces(node, patch) == patch

\* {...node, ...patch}: the fields of the patch replace the node's
Merge(node, patch) ==
  [f \in DOMAIN node \cup DOMAIN patch |->
     IF f \in DOMAIN patch THEN patch[f] ELSE node[f]]

\* login.js searchTree(node, predicate): the first login in pre-order that
\* satisfies the predicate, 0 if none; the predicate is the set of the
\* loginIds it holds for
RECURSIVE searchTree(_, _, _)
RECURSIVE searchChildren(_, _, _, _)
searchTree(tree, n, predicate) ==
  IF n \in predicate THEN n
  ELSE searchChildren(tree, tree[n].children, 1, predicate)
searchChildren(tree, children, i, predicate) ==
  IF i > Len(children) THEN 0
  ELSE LET found == searchTree(tree, children[i], predicate)
       IN IF found # 0 THEN found
          ELSE searchChildren(tree, children, i + 1, predicate)

\* the stash getStash returns for a username nobody logged in with
EmptyStash ==
  [n \in {Root} |->
     [loginId |-> 0, appId |-> "", username |-> Undefined,
      pin2Key |-> NoKey, pin2TextBox |-> NoBox, children |-> <<>>]]

\* login-selectors.js getStash(ai, username)
getStash(stashes, username) ==
  IF fixUsername(username) = stashes[Root].username
  THEN stashes ELSE EmptyStash

-----------------------------------------------------------------------------
(* pin2.js *)

\* pin2Id without fixUsername
pin2IdRaw(pin2Key, username) == hmacSha256(utf8parse(username), pin2Key)

pin2Id(pin2Key, username) ==
  hmacSha256(utf8parse(fixUsername(username)), pin2Key)

pin2Auth(pin2Key, pin) == hmacSha256(utf8parse(pin), pin2Key)

\* the loginId of the stash node to use, 0 for `undefined`
findPin2Stash(tree, appId) ==
  IF tree[Root].pin2Key # NoKey THEN Root
  ELSE LET stash == searchTree(tree, Root,
                             {n \in DOMAIN tree : tree[n].appId = appId})
       IN IF stash # 0 /\ tree[stash].pin2Key # NoKey THEN stash ELSE 0

\* pin2KeyFor with one key drawn for the whole tree
pin2KeyShared(login, rnd) ==
  IF login.pin2Key # NoKey THEN login.pin2Key ELSE RandomKey(1)

\* makeChangePin2Kit line 183: login.pin2Key || io.random(32), where rnd
\* keys have been drawn from io.random before
pin2KeyFor(login, rnd) ==
  IF login.pin2Key # NoKey THEN login.pin2Key ELSE RandomKey(rnd + 1)

\* makeChangePin2Kit that drops the PIN when it disables
makeChangePin2KitForgetsPin(login, username, pin, enableLogin, rnd) ==
  LET pin2TextBox == encrypt(utf8parse(pin), login.loginKey)
  IN IF enableLogin
     THEN LET pin2Key == pin2KeyFor(login, rnd)
              pin2Box == encrypt(login.loginKey, pin2Key)
              pin2KeyBox == encrypt(pin2Key, login.loginKey)
          IN [serverMethod |-> "POST",
              serverPath |-> "/v2/login/pin2",
              server |-> [pin2Id |-> pin2Id(pin2Key, username),
                          pin2Auth |-> pin2Auth(pin2Key, pin),
                          pin2Box |-> pin2Box,
                          pin2KeyBox |-> pin2KeyBox,
                          pin2TextBox |-> pin2TextBox],
              stash |-> [pin2Key |-> pin2Key, pin2TextBox |-> pin2TextBox],
              login |-> [pin2Key |-> pin2Key, pin |-> pin],
              loginId |-> login.loginId]
     ELSE [serverMethod |-> "POST",
           serverPath |-> "/v2/login/pin2",
           server |-> [pin2Id |-> NoHmac,
                       pin2Auth |-> NoHmac,
                       pin2Box |-> NoBox,
                       pin2KeyBox |-> NoBox,
                       pin2TextBox |-> NoBox],
           stash |-> [pin2Key |-> NoKey],
           login |-> [pin2Key |-> NoKey],
           loginId |-> login.loginId]

\* one login's kit: lines 172-227
makeChangePin2Kit(login, username, pin, enableLogin, rnd) ==
  LET pin2TextBox == encrypt(utf8parse(pin), login.loginKey)
  IN IF enableLogin
     THEN LET pin2Key == pin2KeyFor(login, rnd)
              pin2Box == encrypt(login.loginKey, pin2Key)
              pin2KeyBox == encrypt(pin2Key, login.loginKey)
          IN [serverMethod |-> "POST",
              serverPath |-> "/v2/login/pin2",
              server |-> [pin2Id |-> pin2Id(pin2Key, username),
                          pin2Auth |-> pin2Auth(pin2Key, pin),
                          pin2Box |-> pin2Box,
                          pin2KeyBox |-> pin2KeyBox,
                          pin2TextBox |-> pin2TextBox],
              stash |-> [pin2Key |-> pin2Key, pin2TextBox |-> pin2TextBox],
              login |-> [pin2Key |-> pin2Key, pin |-> pin],
              loginId |-> login.loginId]
     ELSE [serverMethod |-> "POST",
           serverPath |-> "/v2/login/pin2",
           server |-> [pin2Id |-> NoHmac,
                       pin2Auth |-> NoHmac,
                       pin2Box |-> NoBox,
                       pin2KeyBox |-> NoBox,
                       pin2TextBox |-> pin2TextBox],
           stash |-> [pin2Key |-> NoKey, pin2TextBox |-> pin2TextBox],
           login |-> [pin2Key |-> NoKey, pin |-> pin],
           loginId |-> login.loginId]

\* how many times makeChangePin2Kits calls io.random under login n
RECURSIVE RandomCalls(_, _, _)
RECURSIVE RandomCallsOf(_, _, _, _)
RandomCalls(tree, n, enableLogin) ==
  (IF enableLogin /\ tree[n].pin2Key = NoKey THEN 1 ELSE 0)
  + RandomCallsOf(tree, tree[n].children, 1, enableLogin)
RandomCallsOf(tree, children, i, enableLogin) ==
  IF i > Len(children) THEN 0
  ELSE RandomCalls(tree, children[i], enableLogin)
       + RandomCallsOf(tree, children, i + 1, enableLogin)

RECURSIVE makeChangePin2Kits(_, _, _, _, _, _)
RECURSIVE pushChangePin2Kits(_, _, _, _, _, _, _, _)
makeChangePin2Kits(tree, n, username, pin, enableLogin, rnd) ==
  pushChangePin2Kits(
    <<makeChangePin2Kit(tree[n], username, pin, enableLogin, rnd)>>,
    tree, tree[n].children, 1, username, pin, enableLogin,
    rnd + (IF enableLogin /\ tree[n].pin2Key = NoKey THEN 1 ELSE 0))
\* the loop over loginTree.children: out.push(...makeChangePin2Kits(child))
pushChangePin2Kits(out, tree, children, i, username, pin, enableLogin, rnd) ==
  IF i > Len(children) THEN out
  ELSE pushChangePin2Kits(
         out \o makeChangePin2Kits(tree, children[i], username, pin,
                                   enableLogin, rnd),
         tree, children, i + 1, username, pin, enableLogin,
         rnd + RandomCalls(tree, children[i], enableLogin))

\* makeDeletePin2Kit whose stash patch keeps the key
makeDeletePin2KitTreeOnly(login) ==
  [serverMethod |-> "DELETE",
   serverPath |-> "/v2/login/pin2",
   server |-> NoBody,
   stash |-> [pin2Key |-> login.pin2Key],
   login |-> [pin2Key |-> NoKey],
   loginId |-> login.loginId]

\* makeDeletePin2Kit whose tree patch keeps the key
makeDeletePin2KitStashOnly(login) ==
  [serverMethod |-> "DELETE",
   serverPath |-> "/v2/login/pin2",
   server |-> NoBody,
   stash |-> [pin2Key |-> NoKey],
   login |-> [pin2Key |-> login.pin2Key],
   loginId |-> login.loginId]

makeDeletePin2Kit(login) ==
  [serverMethod |-> "DELETE",
   serverPath |-> "/v2/login/pin2",
   server |-> NoBody,
   stash |-> [pin2Key |-> NoKey],
   login |-> [pin2Key |-> NoKey],
   loginId |-> login.loginId]

RECURSIVE makeDeletePin2Kits(_, _)
RECURSIVE pushDeletePin2Kits(_, _, _, _)
makeDeletePin2Kits(tree, n) ==
  pushDeletePin2Kits(<<makeDeletePin2Kit(tree[n])>>, tree, tree[n].children, 1)
\* pushDeletePin2Kits that puts the kits of a child before the kits so far
pushDeletePin2KitsChildFirst(out, tree, children, i) ==
  IF i > Len(children) THEN out
  ELSE pushDeletePin2Kits(makeDeletePin2Kits(tree, children[i]) \o out,
                          tree, children, i + 1)

\* the loop over login.children: out.push(...makeDeletePin2Kits(child))
pushDeletePin2Kits(out, tree, children, i) ==
  IF i > Len(children) THEN out
  ELSE pushDeletePin2Kits(out \o makeDeletePin2Kits(tree, children[i]),
                          tree, children, i + 1)

\* resolveEnableLogin without the test for a cached pin
resolveEnableLoginAnyPin(login, pin, enableLogin) ==
  IF enableLogin = Undefined
  THEN login.pin2Key # NoKey \/ pin # Undefined
  ELSE enableLogin = "true"

\* changePin lines 83-86: the enable flag after "Figure out defaults"
resolveEnableLogin(login, pin, enableLogin) ==
  IF enableLogin = Undefined
  THEN login.pin2Key # NoKey \/ (pin # Undefined /\ login.pin = Undefined)
  ELSE enableLogin = "true"

\* changePin line 87: the pin after "Figure out defaults"
resolvePin(login, pin) ==
  IF pin = Undefined THEN login.pin ELSE pin

-----------------------------------------------------------------------------
(* The login server: POST /v2/login/pin2, DELETE /v2/login/pin2, POST /v2/login *)

NoRegistration == [pin2Id |-> NoHmac, pin2Auth |-> NoHmac, pin2Box |-> NoBox]

\* the registration of a login after the server has handled a kit's request
serverPin2(kit) ==
  IF kit.serverMethod = "DELETE" THEN NoRegistration
  ELSE [pin2Id |-> kit.server.pin2Id,
        pin2Auth |-> kit.server.pin2Auth,
        pin2Box |-> kit.server.pin2Box]

\* the logins whose registration a login request identifies and proves
serverAccepts(registered, request) ==
  {n \in DOMAIN registered :
     /\ registered[n].pin2Id # NoHmac
     /\ registered[n].pin2Id = request.pin2Id
     /\ registered[n].pin2Auth = request.pin2Auth}

-----------------------------------------------------------------------------
(* Calls *)

Ok == [status |-> "ok", kit |-> 0]
Pending == [status |-> "pending", kit |-> 0]
PinRequiredToEnable == [status |-> "PinRequiredToEnable", kit |-> 0]
RequestFailed(i) == [status |-> "RequestFailed", kit |-> i]

IdleCall ==
  [pc |-> "idle", op |-> "", pinArg |-> Undefined, enableArg |-> Undefined,
   pin |-> Undefined, enableLogin |-> FALSE, kits |-> <<>>, i |-> 0,
   result |-> Pending, alone |-> TRUE]

NoRequest == [pin2Id |-> NoHmac, pin2Auth |-> NoHmac]

NoRet ==
  [op |-> "", login |-> 0, appId |-> "", username |-> Undefined,
   pin |-> Undefined, stash |-> 0, sent |-> FALSE, request |-> NoRequest,
   net |-> FALSE, result |-> "", loginKey |-> NoKey]

InFlight(p) == calls[p].pc \in {"request", "merge"}

\* a caller starts a call in the first slot that has no call in flight
CanBegin(p) ==
  /\ ~InFlight(p)
  /\ \A q \in Slots : q < p => InFlight(q)
  /\ overlap \/ \A q \in Slots : ~InFlight(q)

\* the calls in flight when another one starts no longer run alone
Started(p, call) ==
  [q \in Slots |->
     IF q = p THEN [call EXCEPT !.alone = \A r \in Slots : ~InFlight(r)]
     ELSE IF InFlight(q) THEN [calls[q] EXCEPT !.alone = FALSE]
     ELSE calls[q]]

\* changePin without the check for a missing PIN
changePinNeverThrows(pin, enableLogin) == FALSE

\* changePin that refuses every call for which no PIN is known
changePinAlwaysThrows(pin, enableLogin) == pin = Undefined

\* changePin lines 90-95: "We cannot enable PIN login if we don't know the PIN"
changePinThrows(pin, enableLogin) == pin = Undefined /\ enableLogin

\* changePin up to its first await: lines 80-101 and the entry of applyKits
changePin(p, pinArg, enableArg) ==
  LET enableLogin == resolveEnableLogin(loginTree[Root], pinArg, enableArg)
      pin == resolvePin(loginTree[Root], pinArg)
      call == [IdleCall EXCEPT !.op = "changePin", !.pinArg = pinArg,
                               !.enableArg = enableArg, !.pin = pin,
                               !.enableLogin = enableLogin]
  IN /\ CanBegin(p)
     /\ ret = NoRet
     /\ IF pin = Undefined
        THEN /\ random' = random
             /\ IF changePinThrows(pin, enableLogin)
                THEN /\ calls' = Started(p, [call EXCEPT
                                  !.pc = "done", !.result = PinRequiredToEnable])
                     /\ returned' = p
                ELSE /\ calls' = Started(p, [call EXCEPT
                                  !.pc = "request", !.i = 1,
                                  !.kits = makeDeletePin2Kits(loginTree, Root)])
                     /\ returned' = returned
        ELSE /\ returned' = returned
             /\ random + RandomCalls(loginTree, Root, enableLogin) <= MaxRandom
             /\ random' = random + RandomCalls(loginTree, Root, enableLogin)
             /\ calls' = Started(p, [call EXCEPT
                           !.pc = "request", !.i = 1,
                           !.kits = makeChangePin2Kits(loginTree, Root,
                                      AccountUsername, pin, enableLogin,
                                      random)])
     /\ ret' = NoRet
     /\ UNCHANGED <<loginTree, stashTree, server, overlap, context>>

\* deletePin up to its first await
deletePin(p) ==
  /\ CanBegin(p)
  /\ ret = NoRet
  /\ calls' = Started(p, [IdleCall EXCEPT
                 !.op = "deletePin", !.pc = "request", !.i = 1,
                 !.kits = makeDeletePin2Kits(loginTree, Root)])
  /\ ret' = NoRet
  /\ UNCHANGED <<loginTree, stashTree, server, returned, random, overlap, context>>

\* applyKitRequest that merges the patches of a kit whose request failed
applyKitRequestMergeFirst(p, good) ==
  LET call == calls[p]
      kit == call.kits[call.i]
  IN /\ call.pc = "request"
     /\ ret = NoRet
     /\ IF good
        THEN /\ server' = [server EXCEPT ![kit.loginId] = serverPin2(kit)]
             /\ calls' = [calls EXCEPT ![p].pc = "merge"]
             /\ returned' = returned
             /\ UNCHANGED <<loginTree, stashTree>>
        ELSE /\ server' = server
             /\ stashTree' = [stashTree EXCEPT
                                ![kit.loginId] = Merge(@, kit.stash)]
             /\ loginTree' = [loginTree EXCEPT
                                ![kit.loginId] = Merge(@, kit.login)]
             /\ calls' = [calls EXCEPT ![p].pc = "done",
                                       ![p].result = RequestFailed(call.i)]
             /\ returned' = p
     /\ ret' = NoRet
     /\ UNCHANGED <<random, overlap, context>>

\* applyKits, first half of one kit: the server request and its outcome
applyKitRequest(p, good) ==
  LET call == calls[p]
      kit == call.kits[call.i]
  IN /\ call.pc = "request"
     /\ ret = NoRet
     /\ IF good
        THEN /\ server' = [server EXCEPT ![kit.loginId] = serverPin2(kit)]
             /\ calls' = [calls EXCEPT ![p].pc = "merge"]
             /\ returned' = returned
        ELSE /\ server' = server
             /\ calls' = [calls EXCEPT ![p].pc = "done",
                                       ![p].result = RequestFailed(call.i)]
             /\ returned' = p
     /\ ret' = NoRet
     /\ UNCHANGED <<loginTree, stashTree, random, overlap, context>>

\* applyKitMerge that sends the request of the next kit along with the merge
applyKitMergeThenRequest(p) ==
  LET call == calls[p]
      kit == call.kits[call.i]
  IN /\ call.pc = "merge"
     /\ ret = NoRet
     /\ stashTree' = [stashTree EXCEPT
                        ![kit.loginId] = Merge(@, kit.stash)]
     /\ loginTree' = [loginTree EXCEPT
                        ![kit.loginId] = Merge(@, kit.login)]
     /\ IF call.i < Len(call.kits)
        THEN /\ server' = [server EXCEPT
                             ![call.kits[call.i + 1].loginId] =
                               serverPin2(call.kits[call.i + 1])]
             /\ calls' = [calls EXCEPT ![p].i = call.i + 1]
             /\ returned' = returned
        ELSE /\ server' = server
             /\ calls' = [calls EXCEPT ![p].pc = "done", ![p].result = Ok]
             /\ returned' = p
     /\ ret' = NoRet
     /\ UNCHANGED <<random, overlap, context>>

\* applyKits, second half of one kit: merge the stash and the tree patches
applyKitMerge(p) ==
  LET call == calls[p]
      kit == call.kits[call.i]
  IN /\ call.pc = "merge"
     /\ ret = NoRet
     /\ stashTree' = [stashTree EXCEPT
                        ![kit.loginId] = Merge(@, kit.stash)]
     /\ loginTree' = [loginTree EXCEPT
                        ![kit.loginId] = Merge(@, kit.login)]
     /\ IF call.i < Len(call.kits)
        THEN /\ calls' = [calls EXCEPT ![p].pc = "request",
                                       ![p].i = call.i + 1]
             /\ returned' = returned
        ELSE /\ calls' = [calls EXCEPT ![p].pc = "done", ![p].result = Ok]
             /\ returned' = p
     /\ ret' = NoRet
     /\ UNCHANGED <<server, random, overlap, context>>

\* checkPin2 that saves the PIN it has verified into the stash
checkPin2Saving(login, pin, net) ==
  LET appId == loginTree[login].appId
      username == loginTree[login].username
      stashes == getStash(stashTree, username)
      stash == findPin2Stash(stashes, appId)
      request == [pin2Id |-> pin2Id(stashes[stash].pin2Key, username),
                  pin2Auth |-> pin2Auth(stashes[stash].pin2Key, pin)]
      good == net /\ serverAccepts(server, request) # {}
      out == [NoRet EXCEPT !.op = "checkPin2", !.login = login,
                           !.appId = appId, !.username = username,
                           !.pin = pin, !.net = net]
  IN /\ ret = NoRet
     /\ username # Undefined
     /\ stash # 0
     /\ ret' = [out EXCEPT !.stash = stash, !.sent = TRUE,
                           !.request = request,
                           !.result = IF good THEN "true" ELSE "false"]
     /\ stashTree' =
          IF good
          THEN [stashTree EXCEPT ![stash].pin2TextBox =
                  encrypt(utf8parse(pin), loginTree[stash].loginKey)]
          ELSE stashTree
     /\ UNCHANGED <<loginTree, server, calls, returned, random, overlap, context>>

\* checkPin2 lines 125-129, without the otp
checkPin2Request(pin2Key, username, pin) ==
  [pin2Id |-> pin2Id(pin2Key, username), pin2Auth |-> pin2Auth(pin2Key, pin)]

checkPin2(login, pin, net) ==
  LET appId == loginTree[login].appId
      username == loginTree[login].username
      out == [NoRet EXCEPT !.op = "checkPin2", !.login = login,
                           !.appId = appId, !.username = username,
                           !.pin = pin, !.net = net]
  IN /\ ret = NoRet
     /\ IF username = Undefined
        THEN ret' = [out EXCEPT !.result = "false"]
        ELSE LET stashes == getStash(stashTree, username)
                 stash == findPin2Stash(stashes, appId)
             IN IF stash = 0
                THEN ret' = [out EXCEPT
                               !.result = "No PIN set locally for this account"]
                ELSE LET pin2Key == stashes[stash].pin2Key
                         request == checkPin2Request(pin2Key, username, pin)
                     IN ret' = [out EXCEPT
                                  !.stash = stash, !.sent = TRUE,
                                  !.request = request,
                                  !.result =
                                     IF net /\ serverAccepts(server, request) # {}
                                     THEN "true" ELSE "false"]
     /\ UNCHANGED <<loginTree, stashTree, server, calls, returned, random,
                   overlap, context>>

\* loginPin2Request with the proof made from the username
loginPin2RequestNoPin(pin2Key, username, pin) ==
  [pin2Id |-> pin2Id(pin2Key, username),
   pin2Auth |-> pin2Auth(pin2Key, username)]

\* loginPin2 lines 62-65
loginPin2Request(pin2Key, username, pin) ==
  [pin2Id |-> pin2Id(pin2Key, username), pin2Auth |-> pin2Auth(pin2Key, pin)]

loginPin2(appId, username, pin, net) ==
  LET stashes == getStash(stashTree, username)
      stash == findPin2Stash(stashes, appId)
      out == [NoRet EXCEPT !.op = "loginPin2", !.appId = appId,
                           !.username = username, !.pin = pin, !.net = net]
  IN /\ ret = NoRet
     /\ IF stash = 0
        THEN ret' = [out EXCEPT !.result =
               "PIN login is not enabled for this account on this device"]
        ELSE LET pin2Key == stashes[stash].pin2Key
                 request == loginPin2Request(pin2Key, username, pin)
                 accepted == serverAccepts(server, request)
                 sent == [out EXCEPT !.stash = stash, !.sent = TRUE,
                                     !.request = request]
             IN IF ~net
                THEN ret' = [sent EXCEPT !.result = "NetworkError"]
                ELSE IF accepted = {}
                THEN ret' = [sent EXCEPT !.result = "LoginRejected"]
                ELSE LET reply == server[CHOOSE n \in accepted : TRUE]
                     IN IF reply.pin2Box = NoBox
                        THEN ret' = [sent EXCEPT !.result =
                                       "Missing data for PIN v2 login"]
                        ELSE ret' = [sent EXCEPT
                                       !.result = "loggedIn",
                                       !.loginKey = decrypt(reply.pin2Box,
                                                            pin2Key)]
     /\ UNCHANGED <<loginTree, stashTree, server, calls, returned, random,
                   overlap, context>>

\* the promise of checkPin2 or loginPin2 settles: the caller has the outcome
settle ==
  /\ ret # NoRet
  /\ ret' = NoRet
  /\ UNCHANGED <<loginTree, stashTree, server, calls, returned, random,
                   overlap, context>>

-----------------------------------------------------------------------------
(* Initial states: a device logged in to one account *)

\* a login tree as login builds it from a stash, and the server to match
InitStores(tree, keyed, cached) ==
  /\ loginTree =
       [n \in Nodes |->
          [loginId |-> n,
           appId |-> tree.appIds[n],
           username |-> IF n \in Named
                        THEN fixUsername(AccountUsername) ELSE Undefined,
           loginKey |-> LoginKeyOf(n),
           pin |-> IF cached THEN FirstPin ELSE Undefined,
           pin2Key |-> IF n \in keyed THEN OldKey(n) ELSE NoKey,
           children |-> tree.children[n]]]
  /\ stashTree =
       [n \in Nodes |->
          [loginId |-> n,
           appId |-> tree.appIds[n],
           username |-> IF n \in Named
                        THEN fixUsername(AccountUsername) ELSE Undefined,
           pin2Key |-> IF n \in keyed THEN OldKey(n) ELSE NoKey,
           pin2TextBox |-> IF cached THEN encrypt(utf8parse(FirstPin), LoginKeyOf(n))
                           ELSE NoBox,
           children |-> tree.children[n]]]
  /\ server =
       [n \in Nodes |->
          IF n \in keyed
          THEN [pin2Id |-> pin2Id(OldKey(n), AccountUsername),
                pin2Auth |-> pin2Auth(OldKey(n), FirstPin),
                pin2Box |-> encrypt(LoginKeyOf(n), OldKey(n))]
          ELSE NoRegistration]

InitAccount ==
  /\ \E tree \in Trees, keyed \in SUBSET Nodes, cached \in BOOLEAN :
       InitStores(tree, keyed, cached)
  /\ calls = [p \in Slots |-> IdleCall]
  /\ ret = NoRet
  /\ returned = 0
  /\ random = 0

-----------------------------------------------------------------------------
(* root.js *)

\* the labels of the host names callers pass as authServer
Labels == {"localhost", "edge", "edgetest", "app", "login", "xedge", "Edge",
           "a~b"}
\* the labels that match [A-Za-z0-9_-]+
WordLabels == Labels \ {"a~b"}
Protocols == {"http:", "https:", "ws:"}
\* host names have at most this many labels
MaxLabels == 3

HostNames == UNION {[1..k -> Labels] : k \in 1..MaxLabels}

\* new URL(server).hostname: the URL parser lower-cases the host
urlHostname(authServer) ==
  [i \in 1..Len(authServer.host) |->
     IF authServer.host[i] = "Edge" THEN "edge" ELSE authServer.host[i]]

\* /^([A-Za-z0-9_-]+\.)*edge(test)?\.app$/.test(hostname)
edgeAppRegExp(hostname) ==
  LET n == Len(hostname)
  IN /\ n >= 2
     /\ hostname[n] = "app"
     /\ hostname[n - 1] \in {"edge", "edgetest"}
     /\ \A i \in 1..(n - 2) : hostname[i] \in WordLabels

\* validateServer(server): TRUE when it returns, FALSE when it throws
validateServer(authServer) ==
  LET hostname == urlHostname(authServer)
  IN \/ authServer.protocol = "http:" /\ hostname = <<"localhost">>
     \/ /\ authServer.protocol = "https:"
        /\ hostname = <<"localhost">> \/ edgeAppRegExp(hostname)

\* authServer = 'https://login.edge.app/api'
DefaultAuthServer == [protocol |-> "https:", host |-> <<"login", "edge", "app">>]

\* makeContext lines 39-53: up to the call of validateServer
makeContext ==
  /\ context.result = "pending"
  /\ context' =
       [context EXCEPT !.result =
          IF ~context.apiKey THEN "No API key provided"
          ELSE IF ~validateServer(context.authServer)
          THEN "Only *.edge.app or localhost are valid login domain names"
          ELSE "validated"]
  /\ UNCHANGED <<loginTree, stashTree, server, calls, ret, returned, random,
                 overlap>>

\* a context made with the default options, and an account logged in to it
Init ==
  /\ InitAccount
  /\ overlap = FALSE
  /\ context = [apiKey |-> TRUE, authServer |-> DefaultAuthServer,
                result |-> "validated"]

\* makeContext is called with any options, before any login
InitContext ==
  /\ InitStores(CHOOSE tree \in Trees : TRUE, {}, FALSE)
  /\ calls = [p \in Slots |-> IdleCall]
  /\ ret = NoRet
  /\ returned = 0
  /\ random = 0
  /\ overlap = FALSE
  /\ \E apiKey \in BOOLEAN, protocol \in Protocols, host \in HostNames :
       context = [apiKey |-> apiKey,
                  authServer |-> [protocol |-> protocol, host |-> host],
                  result |-> "pending"]

NextContext == makeContext

SpecContext == InitContext /\ [][NextContext]_vars

EnableArgs == {Undefined, "true", "false"}

Next ==
  \/ \E p \in Slots, pin \in NewPins \cup {Undefined}, enable \in EnableArgs :
       changePin(p, pin, enable)
  \/ \E p \in Slots : deletePin(p)
  \/ \E p \in Slots, good \in BOOLEAN : applyKitRequest(p, good)
  \/ \E p \in Slots : applyKitMerge(p)
  \/ \E login \in Nodes, pin \in Pins, net \in BOOLEAN :
       checkPin2(login, pin, net)
  \/ \E appId \in AppIds, username \in Usernames, pin \in Pins,
        net \in BOOLEAN : loginPin2(appId, username, pin, net)
  \/ settle

Spec == Init /\ [][Next]_vars

\* a device on which the caller does not wait for one changePin to return
\* before it calls the next: every login but one has a key
InitRace ==
  /\ \E tree \in Trees, n \in Nodes, cached \in BOOLEAN :
       InitStores(tree, Nodes \ {n}, cached)
  /\ calls = [p \in Slots |-> IdleCall]
  /\ ret = NoRet
  /\ returned = 0
  /\ random = 0
  /\ overlap = TRUE
  /\ context = [apiKey |-> TRUE, authServer |-> DefaultAuthServer,
                result |-> "validated"]

\* the caller makes its calls before the first of them has returned
NextRace ==
  \/ \E p \in Slots, pin \in NewPins \cup {Undefined}, enable \in EnableArgs :
       returned = 0 /\ changePin(p, pin, enable)
  \/ \E p \in Slots, good \in BOOLEAN : applyKitRequest(p, good)
  \/ \E p \in Slots : applyKitMerge(p)

SpecRace == InitRace /\ [][NextRace]_vars

-----------------------------------------------------------------------------
(* Properties *)

\* no changePin or deletePin call is in flight
Quiet == \A q \in Slots : ~InFlight(q)

\* the call of slot p was the last to return, and no other call ran during it
ReturnedAlone(p) ==
  /\ Quiet
  /\ returned = p
  /\ calls[p].pc = "done"
  /\ calls[p].alone

\* the PIN login is registered on the server for login n
Registered(n) == server[n].pin2Id # NoHmac

\* C1: checkPin2 never throws or rejects: it resolves to a boolean, and to
\* false when findPin2Stash finds no node with pin2Key, when the network call
\* fails and when the server rejects the proof.
C1_CheckPin2NeverThrows ==
  ret.op = "checkPin2" =>
    /\ ret.result \in {"true", "false"}
    /\ (ret.stash = 0 \/ ~ret.net \/ serverAccepts(server, ret.request) = {})
         => ret.result = "false"

\* C2: after a changePin call that enabled PIN login with PIN p has returned
\* successfully, checkPin2 on the account's login (any login of the tree that
\* carries the username) with the same p sends the pin2Id and pin2Auth the
\* server holds for the node findPin2Stash selects, and resolves to true
\* when the network call gets through.
C2_EnableThenCheckPin2 ==
  \A p \in Slots :
    ( /\ ReturnedAlone(p)
      /\ calls[p].op = "changePin"
      /\ calls[p].enableLogin
      /\ calls[p].result = Ok
      /\ ret.op = "checkPin2"
      /\ ret.username # Undefined
      /\ ret.pin = calls[p].pin )
    => /\ ret.stash # 0
       /\ ret.sent
       /\ Registered(ret.stash)
       /\ ret.request.pin2Id = server[ret.stash].pin2Id
       /\ ret.request.pin2Auth = server[ret.stash].pin2Auth
       /\ ret.result \in {"true", "false"}
       /\ ret.net => ret.result = "true"

\* C2 witness: an enabling changePin that generated a key for the root
\* returned, and checkPin2 on the root login with its PIN resolved to true
C2_Witness ==
  \E p \in Slots :
    /\ ReturnedAlone(p)
    /\ calls[p].op = "changePin"
    /\ calls[p].enableLogin
    /\ calls[p].result = Ok
    /\ ret.op = "checkPin2"
    /\ ret.login = Root
    /\ ret.pin = calls[p].pin
    /\ ret.net
    /\ stashTree[Root].pin2Key = RandomKey(1)
    /\ ret.result = "true"

\* C3: after a changePin call with enable=false, or a deletePin call, has
\* returned successfully, checkPin2 resolves to false for every PIN.
C3_DisableThenCheckPin2 ==
  \A p \in Slots :
    ( /\ ReturnedAlone(p)
      /\ \/ calls[p].op = "deletePin"
         \/ calls[p].op = "changePin" /\ calls[p].enableArg = "false"
      /\ calls[p].result = Ok
      /\ ret.op = "checkPin2" )
    => ret.result = "false"

\* findPin2Stash as the specification words it: the root when it carries
\* pin2Key, otherwise the first login in pre-order whose appId matches and
\* which carries pin2Key
firstMatchWithKey(tree, appId) ==
  IF tree[Root].pin2Key # NoKey THEN Root
  ELSE searchTree(tree, Root,
                  {n \in DOMAIN tree :
                     tree[n].appId = appId /\ tree[n].pin2Key # NoKey})

\* C4: findPin2Stash returns the root when the root carries pin2Key, otherwise
\* the first node in pre-order whose appId matches and which carries pin2Key,
\* otherwise nothing; it is not empty when some node with a matching appId
\* carries pin2Key.
C4_FindPin2Stash ==
  (ret.op = "loginPin2" /\ fixUsername(ret.username) = stashTree[Root].username)
    => ret.stash = firstMatchWithKey(stashTree, ret.appId)

\* C5: loginPin2 rejects with the NotEnabled error and sends no login request
\* whenever findPin2Stash returns nothing; otherwise the request it sends
\* carries the pin2Id and pin2Auth derived from the pin2Key of the node
\* findPin2Stash returned, the username and the pin.
C5_LoginPin2NotEnabled ==
  ret.op = "loginPin2" =>
    LET stashes == getStash(stashTree, ret.username)
        stash == findPin2Stash(stashes, ret.appId)
    IN IF stash = 0
       THEN /\ ret.result =
                 "PIN login is not enabled for this account on this device"
            /\ ~ret.sent
            /\ ret.request = NoRequest
       ELSE /\ ret.stash = stash
            /\ ret.sent
            /\ ret.result #
                 "PIN login is not enabled for this account on this device"
            /\ ret.request.pin2Id =
                 hmacSha256(utf8parse(fixUsername(ret.username)),
                            stashes[stash].pin2Key)
            /\ ret.request.pin2Auth =
                 hmacSha256(utf8parse(ret.pin), stashes[stash].pin2Key)

\* C5 witness: loginPin2 was rejected with NotEnabled although a login of
\* the stash tree carries pin2Key
C5_Witness ==
  /\ ret.op = "loginPin2"
  /\ ret.result = "PIN login is not enabled for this account on this device"
  /\ fixUsername(ret.username) = stashTree[Root].username
  /\ \E n \in Nodes : stashTree[n].pin2Key # NoKey

\* the three stores hold what kit writes to them
Committed(kit) ==
  /\ server[kit.loginId] = serverPin2(kit)
  /\ stashTree[kit.loginId] = Merge(stashTree[kit.loginId], kit.stash)
  /\ loginTree[kit.loginId] = Merge(loginTree[kit.loginId], kit.login)

\* a step that starts a call in slot p
Begins(p) == ~InFlight(p) /\ calls'[p] # calls[p]

\* C6: when the server request of kit ki fails, the call rejects with the
\* error of ki and the failing step writes nothing; the patches of k1..k(i-1)
\* are committed and stay so while no other call runs; the call takes no
\* further step, so ki..kn get no server request and no merge.
C6_KitEnginePartialFailure ==
  [][\A p \in Slots :
       LET call == calls[p]
           failed == call.pc = "done" /\ call.result.status = "RequestFailed"
       IN /\ (call.pc = "request" /\ calls'[p].pc = "done")
             => /\ calls'[p].result = RequestFailed(call.i)
                /\ calls'[p].i = call.i
                /\ calls'[p].kits = call.kits
                /\ UNCHANGED <<loginTree, stashTree, server>>
          /\ (failed /\ call.alone /\ returned = p /\ Quiet)
             => /\ call.i = call.result.kit
                /\ \A j \in 1..(call.i - 1) : Committed(call.kits[j])
          /\ (failed /\ ~Begins(p))
             => calls'[p] = call
          /\ (failed /\ \A q \in Slots : ~InFlight(q) /\ ~Begins(q))
             => UNCHANGED <<loginTree, stashTree, server>>
    ]_vars

\* C6 witness: an enabling changePin failed at its second kit; the first
\* login holds the key generated for it, the second does not hold its kit's
C6_Witness ==
  \E p \in Slots :
    /\ calls[p].pc = "done"
    /\ calls[p].op = "changePin"
    /\ calls[p].enableLogin
    /\ calls[p].result = RequestFailed(2)
    /\ Len(calls[p].kits) = 3
    /\ stashTree[calls[p].kits[1].loginId].pin2Key = RandomKey(1)
    /\ calls[p].kits[2].stash.pin2Key = RandomKey(2)
    /\ stashTree[calls[p].kits[2].loginId].pin2Key = NoKey
    /\ ~Registered(calls[p].kits[2].loginId)

\* the PIN the stash caches for login n, Undefined if none
StashedPin(n) ==
  utf8stringify(decrypt(stashTree[n].pin2TextBox, loginTree[n].loginKey))

\* stash, tree and server agree on login n
StoresAgree(n) ==
  /\ stashTree[n].pin2Key = loginTree[n].pin2Key
  /\ loginTree[n].pin = StashedPin(n)
  /\ Registered(n) <=> stashTree[n].pin2Key # NoKey
  /\ stashTree[n].pin2Key # NoKey =>
       /\ server[n].pin2Id =
            hmacSha256(utf8parse(fixUsername(AccountUsername)),
                       stashTree[n].pin2Key)
       /\ server[n].pin2Auth =
            hmacSha256(utf8parse(loginTree[n].pin), stashTree[n].pin2Key)

\* C7: after a changePin or deletePin call that ran alone has returned
\* successfully, stash, tree and server agree for every node of the tree.
C7_StoresAgreeAfterSuccess ==
  \A p \in Slots :
    (ReturnedAlone(p) /\ calls[p].result = Ok)
      => \A n \in Nodes : StoresAgree(n)

\* C7 witness: an enabling changePin returned successfully after it
\* generated the root's key, and every login is registered on the server
C7_Witness ==
  \E p \in Slots :
    /\ ReturnedAlone(p)
    /\ calls[p].result = Ok
    /\ calls[p].op = "changePin"
    /\ calls[p].enableLogin
    /\ stashTree[Root].pin2Key = RandomKey(1)
    /\ \A n \in Nodes : Registered(n)

\* C8: changePin rejects with PinRequiredToEnable whenever the resolved
\* enable flag is true and no PIN is available; then no kit is built, no
\* server request is issued and stash and tree are unchanged.
C8_PinRequiredToEnable ==
  [][\A p \in Slots :
       ( /\ Begins(p)
         /\ calls'[p].op = "changePin"
         /\ calls'[p].pinArg = Undefined
         /\ loginTree[Root].pin = Undefined
         /\ \/ calls'[p].enableArg = "true"
            \/ /\ calls'[p].enableArg = Undefined
               /\ loginTree[Root].pin2Key # NoKey )
       => /\ calls'[p].pc = "done"
          /\ calls'[p].result = PinRequiredToEnable
          /\ calls'[p].kits = <<>>
          /\ UNCHANGED <<loginTree, stashTree, server, random>>
    ]_vars

\* C8 witness: changePin() with neither argument was rejected on a tree whose
\* root has pin2Key but no cached pin
C8_Witness ==
  \E p \in Slots :
    /\ calls[p].op = "changePin"
    /\ calls[p].result = PinRequiredToEnable
    /\ calls[p].enableArg = Undefined
    /\ calls[p].pinArg = Undefined
    /\ loginTree[Root].pin2Key # NoKey

\* C9: an omitted enable resolves to true exactly when the root has pin2Key,
\* or a pin was supplied and the tree caches none; an omitted pin resolves to
\* the cached pin; supplied arguments are kept.
C9_DefaultResolution ==
  [][\A p \in Slots :
       (Begins(p) /\ calls'[p].op = "changePin")
       => LET call == calls'[p]
          IN /\ call.enableArg = "true" => call.enableLogin
             /\ call.enableArg = "false" => ~call.enableLogin
             /\ call.enableArg = Undefined =>
                  (call.enableLogin <=>
                     \/ loginTree[Root].pin2Key # NoKey
                     \/ /\ call.pinArg # Undefined
                        /\ loginTree[Root].pin = Undefined)
             /\ call.pinArg # Undefined => call.pin = call.pinArg
             /\ call.pinArg = Undefined => call.pin = loginTree[Root].pin
    ]_vars

\* C9 witness: changePin(pin) without enable on a tree that caches a pin and
\* has no root key resolved to disabling
C9_Witness ==
  \E p \in Slots :
    /\ calls[p].op = "changePin"
    /\ calls[p].pc = "request"
    /\ calls[p].i = 1
    /\ calls[p].enableArg = Undefined
    /\ calls[p].pinArg # Undefined
    /\ loginTree[Root].pin2Key = NoKey
    /\ loginTree[Root].pin = FirstPin
    /\ ~calls[p].enableLogin

\* the call of slot p has built its kits and nothing has been written since
JustBuilt(p) ==
  /\ calls[p].pc = "request"
  /\ calls[p].i = 1
  /\ calls[p].alone

\* C10: when enabling, every kit is built from one key: the node's own
\* pin2Key when it has one, else a generated key that differs from every key
\* in the tree and from the keys of the other kits; pin and enable flag are
\* the same in every kit.
C10_OwnKeyPerNode ==
  \A p \in Slots :
    (JustBuilt(p) /\ calls[p].op = "changePin" /\ calls[p].enableLogin)
    => LET kits == calls[p].kits
       IN \A j \in 1..Len(kits) :
            LET kit == kits[j]
                login == loginTree[kit.loginId]
                key == kit.stash.pin2Key
            IN /\ key # NoKey
               /\ kit.login.pin2Key = key
               /\ kit.server.pin2Id =
                    hmacSha256(utf8parse(fixUsername(AccountUsername)), key)
               /\ kit.server.pin2Auth =
                    hmacSha256(utf8parse(calls[p].pin), key)
               /\ kit.server.pin2Box = encrypt(login.loginKey, key)
               /\ kit.server.pin2KeyBox = encrypt(key, login.loginKey)
               /\ kit.login.pin = calls[p].pin
               /\ kit.stash.pin2TextBox =
                    encrypt(utf8parse(calls[p].pin), login.loginKey)
               /\ kit.server.pin2TextBox = kit.stash.pin2TextBox
               /\ login.pin2Key # NoKey => key = login.pin2Key
               /\ login.pin2Key = NoKey =>
                    /\ \A n \in Nodes : loginTree[n].pin2Key # key
                    /\ \A m \in 1..Len(kits) :
                         m # j => kits[m].stash.pin2Key # key

\* C10 witness: an enabling call built kits for a tree in which one login had
\* a key and two had none
C10_Witness ==
  \E p \in Slots :
    /\ JustBuilt(p)
    /\ calls[p].op = "changePin"
    /\ calls[p].enableLogin
    /\ Cardinality({n \in Nodes : loginTree[n].pin2Key = NoKey}) = 2
    /\ Cardinality({j \in 1..3 : calls[p].kits[j].stash.pin2Key
                                   \in {RandomKey(1), RandomKey(2)}}) = 2

\* C11: makeDeletePin2Kits yields one kit per node, each a DELETE request
\* with no body whose stash and tree patches clear pin2Key and nothing else,
\* whether or not the node had the factor enabled; after the kits were
\* applied, building them again yields equal kits and merging them again
\* leaves stash and tree as they are.
C11_DeleteKitsIdempotent ==
  \A p \in Slots :
    LET kits == calls[p].kits
        deletes == \/ calls[p].op = "deletePin"
                   \/ /\ calls[p].op = "changePin"
                      /\ calls[p].pin = Undefined
                      /\ ~calls[p].enableLogin
    IN /\ (deletes /\ calls[p].pc # "idle") =>
            /\ Len(kits) = Cardinality(Nodes)
            /\ {kits[j].loginId : j \in 1..Len(kits)} = Nodes
            /\ \A j \in 1..Len(kits) :
                 /\ kits[j].serverMethod = "DELETE"
                 /\ kits[j].server = NoBody
                 /\ kits[j].stash = [pin2Key |-> NoKey]
                 /\ kits[j].login = [pin2Key |-> NoKey]
       /\ (deletes /\ ReturnedAlone(p) /\ calls[p].result = Ok) =>
            /\ makeDeletePin2Kits(loginTree, Root) = kits
            /\ \A j \in 1..Len(kits) :
                 /\ Merge(stashTree[kits[j].loginId], kits[j].stash)
                      = stashTree[kits[j].loginId]
                 /\ Merge(loginTree[kits[j].loginId], kits[j].login)
                      = loginTree[kits[j].loginId]
                 /\ serverPin2(kits[j]) = server[kits[j].loginId]

\* C11 witness: a deletePin has returned successfully in a behaviour in
\* which keys were generated, and no login has a key or a registration left
C11_Witness ==
  \E p \in Slots :
    /\ ReturnedAlone(p)
    /\ calls[p].op = "deletePin"
    /\ calls[p].result = Ok
    /\ random > 0
    /\ \A n \in Nodes : stashTree[n].pin2Key = NoKey /\ ~Registered(n)

\* C12: checkPin2 changes no session state: whatever its outcome, the stash
\* tree, the login tree and the server's registrations are the same after
\* the call as before it.
C12_CheckPin2ChangesNothing ==
  [][(ret = NoRet /\ ret'.op = "checkPin2")
       => /\ loginTree' = loginTree
          /\ stashTree' = stashTree
          /\ server' = server
          /\ calls' = calls
    ]_vars

\* C12 witness: checkPin2 resolved to true with a PIN other than the one the
\* stash caches for the login it used
C12_Witness ==
  /\ ret.op = "checkPin2"
  /\ ret.result = "true"
  /\ ret.stash # 0
  /\ stashTree[ret.stash].pin2TextBox
       # encrypt(utf8parse(ret.pin), loginTree[ret.stash].loginKey)

\* the host is localhost, edge.app or a subdomain of edge.app
EdgeAppOrLocalhost(hostname) ==
  \/ hostname = <<"localhost">>
  \/ /\ Len(hostname) >= 2
     /\ hostname[Len(hostname)] = "app"
     /\ hostname[Len(hostname) - 1] = "edge"

\* C13: validateServer throws for every server URL whose hostname is neither
\* localhost nor edge.app nor a subdomain of edge.app, for every protocol.
C13_OnlyEdgeAppOrLocalhost ==
  (context.result # "pending" /\ context.apiKey
     /\ ~EdgeAppOrLocalhost(urlHostname(context.authServer)))
    => context.result
         = "Only *.edge.app or localhost are valid login domain names"

\* the logins of the subtree under login n: n and every descendant
RECURSIVE Subtree(_, _)
Subtree(tree, n) ==
  {n} \cup UNION {Subtree(tree, tree[n].children[c]) :
                    c \in 1..Len(tree[n].children)}

\* the place of login n in a sequence of kits, 0 when it has no kit
KitOf(kits, n) ==
  IF \E j \in 1..Len(kits) : kits[j].loginId = n
  THEN CHOOSE j \in 1..Len(kits) : kits[j].loginId = n
  ELSE 0

\* C14: makeChangePin2Kits and makeDeletePin2Kits return one kit per login
\* of the tree, each with that login's loginId, in pre-order: the kit of a
\* login comes before the kits of its descendants, and the kits of an
\* earlier child's subtree come before those of a later child's subtree.
C14_KitsInPreOrder ==
  \A p \in Slots :
    calls[p].kits # <<>> =>
      LET kits == calls[p].kits
      IN /\ Len(kits) = Cardinality(Nodes)
         /\ \A n \in Nodes :
              Cardinality({j \in 1..Len(kits) : kits[j].loginId = n}) = 1
         /\ kits[1].loginId = Root
         /\ \A n \in Nodes :
              \A m \in Subtree(loginTree, n) \ {n} :
                KitOf(kits, n) < KitOf(kits, m)
         /\ \A n \in Nodes :
              LET children == loginTree[n].children
              IN \A a, b \in 1..Len(children) :
                   a < b =>
                     \A x \in Subtree(loginTree, children[a]) :
                       \A y \in Subtree(loginTree, children[b]) :
                         KitOf(kits, x) < KitOf(kits, y)

\* C14 witness: after keys were generated, a deletePin has run with kits for
\* a root whose children are the logins 3 and 2, in that order
C14_Witness ==
  /\ loginTree[Root].children = <<3, 2>>
  /\ \E p \in Slots :
       /\ calls[p].op = "deletePin"
       /\ calls[p].pc = "done"
       /\ [j \in 1..3 |-> calls[p].kits[j].loginId] = <<1, 3, 2>>
       /\ [j \in 1..3 |-> calls[p].kits[j].serverMethod]
            = <<"DELETE", "DELETE", "DELETE">>
  /\ random > 0

\* C15: when disabling with a known PIN, the kit of every login is a POST
\* whose body has no pin2Id, pin2Auth, pin2Box or pin2KeyBox, whose stash
\* and tree patches clear pin2Key, and which carries pin2TextBox = the PIN
\* encrypted under the login's loginKey in the body and the stash patch and
\* the PIN in the tree patch; after the call succeeded every login has the
\* PIN cached and no key.
C15_DisableKeepsPinCached ==
  \A p \in Slots :
    LET call == calls[p]
        disables == /\ call.op = "changePin"
                    /\ call.pin # Undefined
                    /\ ~call.enableLogin
    IN /\ (disables /\ call.pc # "idle") =>
            \A j \in 1..Len(call.kits) :
              LET kit == call.kits[j]
                  pin2TextBox == encrypt(utf8parse(call.pin),
                                         LoginKeyOf(kit.loginId))
              IN /\ kit.serverMethod = "POST"
                 /\ kit.server = [pin2Id |-> NoHmac,
                                  pin2Auth |-> NoHmac,
                                  pin2Box |-> NoBox,
                                  pin2KeyBox |-> NoBox,
                                  pin2TextBox |-> pin2TextBox]
                 /\ kit.stash = [pin2Key |-> NoKey,
                                 pin2TextBox |-> pin2TextBox]
                 /\ kit.login = [pin2Key |-> NoKey, pin |-> call.pin]
                 /\ serverPin2(kit) = NoRegistration
       /\ (disables /\ ReturnedAlone(p) /\ call.result = Ok) =>
            \A n \in Nodes :
              /\ loginTree[n].pin2Key = NoKey
              /\ stashTree[n].pin2Key = NoKey
              /\ loginTree[n].pin = call.pin
              /\ utf8stringify(decrypt(stashTree[n].pin2TextBox,
                                       loginTree[n].loginKey)) = call.pin
              /\ ~Registered(n)

\* C15 witness: a changePin that disabled PIN login by supplying a new PIN
\* has succeeded on an account that had PIN login enabled with another PIN
C15_Witness ==
  \E p \in Slots :
    /\ ReturnedAlone(p)
    /\ calls[p].op = "changePin"
    /\ calls[p].result = Ok
    /\ calls[p].enableArg = "false"
    /\ calls[p].pinArg = "0000"
    /\ calls[p].kits[1].stash.pin2TextBox
         = encrypt(utf8parse("0000"), LoginKeyOf(Root))
    /\ random > 0
    /\ \A n \in Nodes : loginTree[n].pin = "0000" /\ stashTree[n].pin2Key = NoKey

\* C16: when the resolved enable flag is false and no PIN is supplied or
\* cached, changePin raises no error and applies the delete kits, one DELETE
\* kit per login, instead of change kits; it draws no key.
C16_DisableWithoutPinDeletes ==
  [][\A p \in Slots :
       ( /\ Begins(p)
         /\ calls'[p].op = "changePin"
         /\ calls'[p].pinArg = Undefined
         /\ loginTree[Root].pin = Undefined
         /\ \/ calls'[p].enableArg = "false"
            \/ /\ calls'[p].enableArg = Undefined
               /\ loginTree[Root].pin2Key = NoKey )
       => LET kits == calls'[p].kits
          IN /\ calls'[p].pc = "request"
             /\ calls'[p].result = Pending
             /\ ~calls'[p].enableLogin
             /\ Len(kits) = Cardinality(Nodes)
             /\ {kits[j].loginId : j \in 1..Len(kits)} = Nodes
             /\ \A j \in 1..Len(kits) :
                  /\ kits[j].serverMethod = "DELETE"
                  /\ kits[j].server = NoBody
                  /\ DOMAIN kits[j].stash = {"pin2Key"}
                  /\ DOMAIN kits[j].login = {"pin2Key"}
             /\ kits = makeDeletePin2Kits(loginTree, Root)
             /\ UNCHANGED <<loginTree, stashTree, server, random>>
    ]_vars

\* C16 witness: changePin(undefined, false) has built its kits on a tree
\* whose root has pin2Key but no cached pin
C16_Witness ==
  \E p \in Slots :
    /\ JustBuilt(p)
    /\ calls[p].op = "changePin"
    /\ calls[p].enableArg = "false"
    /\ calls[p].pinArg = Undefined
    /\ calls[p].pin = Undefined
    /\ loginTree[Root].pin2Key # NoKey
    /\ calls[p].kits[1].serverMethod = "DELETE"

\* the call of slot p takes a step of applyKits
Advances(p) ==
  /\ InFlight(p)
  /\ \/ calls'[p].pc # calls[p].pc
     \/ calls'[p].i # calls[p].i

\* C17: within one call kits are applied one after the other: the request of
\* kit i is sent first and changes the server only; stash and tree are merged
\* for kit i only after that request succeeded; the call turns to kit i + 1
\* only at the merge of kit i; a failed request ends the call at kit i. The
\* server, the stash and the tree change at no other step.
C17_KitsStrictlySequential ==
  [][/\ \A p \in Slots :
          Advances(p) =>
            LET call == calls[p]
                kit == call.kits[call.i]
                n == kit.loginId
            IN /\ calls'[p].kits = call.kits
               /\ call.pc = "request" =>
                    /\ calls'[p].i = call.i
                    /\ UNCHANGED <<stashTree, loginTree>>
                    /\ \/ /\ calls'[p].pc = "merge"
                          /\ server' = [server EXCEPT ![n] = serverPin2(kit)]
                       \/ /\ calls'[p].pc = "done"
                          /\ calls'[p].result = RequestFailed(call.i)
                          /\ server' = server
               /\ call.pc = "merge" =>
                    /\ server' = server
                    /\ stashTree' = [stashTree EXCEPT
                                       ![n] = Merge(stashTree[n], kit.stash)]
                    /\ loginTree' = [loginTree EXCEPT
                                       ![n] = Merge(loginTree[n], kit.login)]
                    /\ \/ /\ call.i < Len(call.kits)
                          /\ calls'[p].pc = "request"
                          /\ calls'[p].i = call.i + 1
                       \/ /\ call.i = Len(call.kits)
                          /\ calls'[p].pc = "done"
                          /\ calls'[p].i = call.i
                          /\ calls'[p].result = Ok
     /\ server' # server =>
          \E p \in Slots : Advances(p) /\ calls[p].pc = "request"
     /\ (stashTree' # stashTree \/ loginTree' # loginTree) =>
          \E p \in Slots : Advances(p) /\ calls[p].pc = "merge"
    ]_vars

\* C17 witness: an enabling changePin is about to send the request of its
\* second kit: the root is registered and merged, the second login is not
C17_Witness ==
  \E p \in Slots :
    /\ calls[p].op = "changePin"
    /\ calls[p].enableLogin
    /\ calls[p].pc = "request"
    /\ calls[p].i = 2
    /\ Registered(Root)
    /\ stashTree[Root].pin2Key = calls[p].kits[1].stash.pin2Key
    /\ loginTree[Root].pin = calls[p].pin
    /\ LET n == calls[p].kits[2].loginId
       IN /\ ~Registered(n)
          /\ stashTree[n].pin2Key = NoKey
          /\ loginTree[n].pin # calls[p].pin

\* the fields of a patch are the fields of the node
Holds(node, patch) == \A f \in DOMAIN patch : node[f] = patch[f]

\* the two calls have overlapped and both have returned successfully
BothReturned ==
  \A p \in Slots :
    /\ calls[p].op = "changePin"
    /\ calls[p].pc = "done"
    /\ calls[p].result = Ok
    /\ ~calls[p].alone

\* C18: overlapping changePin calls are not serialized. A call that starts
\* while another is in flight builds its kits from the tree as it is then,
\* with a key of its own for a login that has none; a merge writes the
\* call's patches over whatever the node holds and touches no other node;
\* once both calls have returned successfully every login's stash and tree
\* node hold the patches of one of the two calls.
C18_LastWriteWins ==
  [][/\ \A p \in Slots :
          (Begins(p) /\ calls'[p].pin # Undefined) =>
            LET call == calls'[p]
            IN /\ call.kits = makeChangePin2Kits(loginTree, Root,
                                AccountUsername, call.pin, call.enableLogin,
                                random)
               /\ call.enableLogin =>
                    \A j \in 1..Len(call.kits) :
                      loginTree[call.kits[j].loginId].pin2Key = NoKey =>
                        \A q \in Slots \ {p} :
                          \A k \in 1..Len(calls[q].kits) :
                            calls[q].kits[k].stash.pin2Key
                              # call.kits[j].stash.pin2Key
     /\ \A p \in Slots :
          (Advances(p) /\ calls[p].pc = "merge") =>
            LET kit == calls[p].kits[calls[p].i]
                n == kit.loginId
            IN /\ Holds(stashTree'[n], kit.stash)
               /\ Holds(loginTree'[n], kit.login)
               /\ \A m \in Nodes \ {n} :
                    /\ stashTree'[m] = stashTree[m]
                    /\ loginTree'[m] = loginTree[m]
     /\ BothReturned' =>
          \A n \in Nodes :
            \E p \in Slots :
              LET kit == calls'[p].kits[KitOf(calls'[p].kits, n)]
              IN /\ Holds(stashTree'[n], kit.stash)
                 /\ Holds(loginTree'[n], kit.login)
    ]_vars

\* C18 witness: two enabling calls with different PINs overlapped, each drew
\* its own key for the root, both returned successfully, and the root is
\* left with the key and PIN of one call and another login with the PIN of
\* the other call
C18_Witness ==
  /\ BothReturned
  /\ \A p \in Slots : calls[p].enableLogin
  /\ \E p, q \in Slots :
       LET mine == calls[p].kits[1]
           theirs == calls[q].kits[1]
       IN /\ mine.loginId = Root /\ theirs.loginId = Root
          /\ mine.stash.pin2Key = RandomKey(1)
          /\ theirs.stash.pin2Key = RandomKey(2)
          /\ calls[p].pin # calls[q].pin
          /\ stashTree[Root].pin2Key = mine.stash.pin2Key
          /\ loginTree[Root].pin = calls[p].pin
          /\ \E n \in Nodes \ {Root} : loginTree[n].pin = calls[q].pin

\* the fields of a node that no PIN kit patches
StashFrame == {"loginId", "appId", "username", "children"}
TreeFrame == {"loginId", "appId", "username", "loginKey", "children"}

\* C19: PIN kits keep the shape of the trees: no step of changePin or
\* deletePin, successful or failed, adds or removes a node or a field of a
\* node; on a stash node only pin2Key and pin2TextBox change, on a tree node
\* only pin2Key and pin; and every stash node has the tree node of the same
\* loginId, with the same children.
C19_KitsKeepTreeShape ==
  [][/\ DOMAIN stashTree' = DOMAIN stashTree
     /\ DOMAIN loginTree' = DOMAIN loginTree
     /\ \A n \in DOMAIN stashTree :
          /\ DOMAIN stashTree'[n] = DOMAIN stashTree[n]
          /\ DOMAIN stashTree[n] = StashFrame \cup {"pin2Key", "pin2TextBox"}
          /\ \A f \in StashFrame : stashTree'[n][f] = stashTree[n][f]
     /\ \A n \in DOMAIN loginTree :
          /\ DOMAIN loginTree'[n] = DOMAIN loginTree[n]
          /\ DOMAIN loginTree[n] = TreeFrame \cup {"pin2Key", "pin"}
          /\ \A f \in TreeFrame : loginTree'[n][f] = loginTree[n][f]
     /\ \A n \in DOMAIN stashTree' :
          /\ n \in DOMAIN loginTree'
          /\ loginTree'[n].loginId = stashTree'[n].loginId
          /\ loginTree'[n].children = stashTree'[n].children
    ]_vars

\* C19 witness: after an enabling changePin drew keys, a deletePin has failed
\* at its second kit: the root lost its key, another login still has a
\* generated one, and the root still has its two children
C19_Witness ==
  \E p \in Slots :
    /\ ReturnedAlone(p)
    /\ calls[p].op = "deletePin"
    /\ calls[p].result = RequestFailed(2)
    /\ stashTree[Root].pin2Key = NoKey
    /\ loginTree[Root].pin = "0000"
    /\ loginTree[Root].children = <<3, 2>>
    /\ \E n \in Nodes \ {Root} :
         /\ stashTree[n].pin2Key \in {RandomKey(r) : r \in 1..MaxRandom}
         /\ loginTree[n].pin2Key = stashTree[n].pin2Key

\* the stash node of login n has a key that the tree node shares and that
\* the server has registered under the account's username
KeyRegistered(n) ==
  LET key == stashTree[n].pin2Key
  IN /\ loginTree[n].pin2Key = key
     /\ server[n].pin2Id
          = hmacSha256(utf8parse(fixUsername(AccountUsername)), key)
     /\ server[n].pin2Box = encrypt(loginTree[n].loginKey, key)

\* the server's proof for login n is derived from the key and the PIN the
\* tree caches for n, and the server accepts a PIN login for n with that PIN
CachedPinAccepted(n) ==
  LET key == stashTree[n].pin2Key
      pin == loginTree[n].pin
  IN /\ server[n].pin2Auth = hmacSha256(utf8parse(pin), key)
     /\ \A appId \in AppIds :
          findPin2Stash(stashTree, appId) = n =>
            n \in serverAccepts(server,
                                loginPin2Request(key, AccountUsername, pin))

\* C20 as stated: whenever no call is in flight, a stash node carries pin2Key
\* only if the tree node carries the same key and the server holds a
\* registration whose pin2Id and pin2Auth are derived from that key and the
\* PIN cached in the tree, so that loginPin2 with the cached PIN is accepted.
C20_KeyMeansCachedPinAccepted ==
  Quiet =>
    \A n \in Nodes :
      stashTree[n].pin2Key # NoKey =>
        KeyRegistered(n) /\ CachedPinAccepted(n)

\* C20, amended: whenever no call is in flight, a stash node carries pin2Key
\* only if the tree node carries the same key and the server holds a
\* registration whose pin2Id is derived from that key; the registration's
\* pin2Auth is derived from the key and the PIN cached in the tree, and
\* loginPin2 with the cached PIN is accepted, when the tree caches a PIN for
\* the node; a node can carry pin2Key with no PIN cached.
C20_KeyMeansRegistered ==
  Quiet =>
    \A n \in Nodes :
      stashTree[n].pin2Key # NoKey =>
        /\ KeyRegistered(n)
        /\ loginTree[n].pin # Undefined => CachedPinAccepted(n)

\* C20 witness: an enabling changePin with a new PIN has failed at its second
\* kit on a device that had keys but no cached PIN: the root has the new PIN
\* and is accepted with it, another login still has its key and no PIN
C20_Witness ==
  \E p \in Slots :
    /\ ReturnedAlone(p)
    /\ calls[p].op = "changePin"
    /\ calls[p].result = RequestFailed(2)
    /\ calls[p].enableLogin
    /\ stashTree[Root].pin2Key # NoKey
    /\ loginTree[Root].pin = "0000"
    /\ findPin2Stash(stashTree, "") = Root
    /\ Root \in serverAccepts(server,
                 loginPin2Request(stashTree[Root].pin2Key, AccountUsername,
                                  "0000"))
    /\ \E n \in Nodes \ {Root} :
         stashTree[n].pin2Key # NoKey /\ loginTree[n].pin = Undefined

====
